---- MODULE Spec2Model ----
(***************************************************************************)
(* Model of src/app.py: the labor-law FAQ front end.                       *)
(*                                                                         *)
(* A string is a sequence of characters; a character is a one-token TLA+   *)
(* string.  The CJK characters of the source are written by their pinyin:  *)
(*   "lai" "yuan"  = U+4F86 U+6E90  (the label of the source line)         *)
(*   "fen" "lei"   = U+5206 U+985E  (the label of the category line)       *)
(*   "wen"         = U+554F         (the label of the question)            *)
(*   "da"          = U+7B54         (the label of the answer)              *)
(***************************************************************************)
EXTENDS Integers, Sequences, FiniteSets, TLC

\* ------------------------------------------------------------------------
\* Strings
\* ------------------------------------------------------------------------

SP == " "
NL == "\n"

LowerCase == <<"a","b","c","d","e","f","g","h","i","j","k","l","m",
               "n","o","p","q","r","s","t","u","v","w","x","y","z">>
UpperCase == <<"A","B","C","D","E","F","G","H","I","J","K","L","M",
               "N","O","P","Q","R","S","T","U","V","W","X","Y","Z">>
Digits == {"0","1","2","3","4","5","6","7","8","9"}
Range(s) == {s[i] : i \in DOMAIN s}
Letters == Range(LowerCase) \cup Range(UpperCase)
CJK == {"lai","yuan","fen","lei","wen","da","wei","zhi","lao","dong","bu",
        "ye","an","quan","sheng","shu","gong","bao","xian","ju","zi","liao"}

\* re: \s
IsSpace(c) == c \in {SP, NL}
\* re: \d
IsDigit(c) == c \in Digits
\* re: \w (unicode): letters, digits, underscore
WordChars == Letters \cup Digits \cup CJK \cup {"_"}
IsWord(c) == c \in WordChars

MinOf(S) == CHOOSE x \in S : \A y \in S : x <= y
MaxOf(S) == CHOOSE x \in S : \A y \in S : x >= y

\* c repeated n times
Run(c, n) == [i \in 1..n |-> c]

\* s[:n]
Take(s, n) == SubSeq(s, 1, IF n < Len(s) THEN n ELSE Len(s))

\* s[i:]  (1-based i)
From(s, i) == SubSeq(s, i, Len(s))

\* the literal lit stands in s at index i
Occurs(s, lit, i) ==
    /\ i >= 1
    /\ i + Len(lit) - 1 <= Len(s)
    /\ \A k \in 1..Len(lit) : s[i + k - 1] = lit[k]

\* str.lower, str.upper
LowerChar(c) ==
    IF \E i \in 1..26 : UpperCase[i] = c
    THEN LowerCase[CHOOSE i \in 1..26 : UpperCase[i] = c]
    ELSE c
UpperChar(c) ==
    IF \E i \in 1..26 : LowerCase[i] = c
    THEN UpperCase[CHOOSE i \in 1..26 : LowerCase[i] = c]
    ELSE c
Lower(s) == [i \in 1..Len(s) |-> LowerChar(s[i])]
Upper(s) == [i \in 1..Len(s) |-> UpperChar(s[i])]

\* str.strip()
RECURSIVE SkipSpaces(_, _)
SkipSpaces(s, i) ==
    IF i <= Len(s) /\ IsSpace(s[i]) THEN SkipSpaces(s, i + 1) ELSE i
RECURSIVE SkipSpacesBack(_, _)
SkipSpacesBack(s, i) ==
    IF i >= 1 /\ IsSpace(s[i]) THEN SkipSpacesBack(s, i - 1) ELSE i
Strip(s) == SubSeq(s, SkipSpaces(s, 1), SkipSpacesBack(s, Len(s)))

\* str.replace(lit, ''): every non-overlapping occurrence, left to right
RECURSIVE Remove(_, _)
Remove(s, lit) ==
    IF s = <<>> THEN <<>>
    ELSE IF Occurs(s, lit, 1) THEN Remove(From(s, Len(lit) + 1), lit)
    ELSE <<s[1]>> \o Remove(Tail(s), lit)

\* str.split('_')[0]
FirstField(s) ==
    LET us == {i \in 1..Len(s) : s[i] = "_"}
    IN  IF us = {} THEN s ELSE SubSeq(s, 1, MinOf(us) - 1)

\* ------------------------------------------------------------------------
\* The regular expressions of parse_source_info
\* ------------------------------------------------------------------------

TXT == <<".","t","x","t">>
FAQ == <<"_","f","a","q","_">>
SourceLabel == <<"lai","yuan",":">>
CategoryLabel == <<"fen","lei",":">>
QuestionLabel == <<"wen",":">>
AnswerLabel == <<"da",":">>
Ellipsis == <<".",".",".">>
DateDigits == 8
QuestionMax == 50

NoMatch == [found |-> FALSE, group |-> <<>>]
Match(g) == [found |-> TRUE, group |-> g]

\* re.search(r'(\w+_faq_\d{8}_\d+)', s): the leftmost start, \w+ and \d+ greedy
DocIdAt(s, i, j) ==
    /\ i < j
    /\ Occurs(s, FAQ, j)
    /\ \A k \in i..(j - 1) : IsWord(s[k])
    /\ j + Len(FAQ) + DateDigits + 1 <= Len(s)
    /\ \A k \in (j + Len(FAQ))..(j + Len(FAQ) + DateDigits - 1) : IsDigit(s[k])
    /\ s[j + Len(FAQ) + DateDigits] = "_"
    /\ IsDigit(s[j + Len(FAQ) + DateDigits + 1])

SearchDocId(s) ==
    LET starts == {i \in 1..Len(s) : \E j \in 1..Len(s) : DocIdAt(s, i, j)}
    IN  IF starts = {} THEN NoMatch
        ELSE LET i == MinOf(starts)
                 j == MaxOf({x \in 1..Len(s) : DocIdAt(s, i, x)})
                 d == j + Len(FAQ) + DateDigits + 1
                 e == MaxOf({x \in d..Len(s) : \A k \in d..x : IsDigit(s[k])})
             IN  Match(SubSeq(s, i, e))

\* \s* is greedy and gives back: of the indices p..e the last one at which
\* (.+?) can take its first character (0: none).  dotall: '.' also matches
\* a newline.
RECURSIVE LastStart(_, _, _, _)
LastStart(s, p, b, dotall) ==
    IF b < p THEN 0
    ELSE IF dotall \/ s[b] # NL THEN b
    ELSE LastStart(s, p, b - 1, dotall)

\* the index at which group(1) starts when the label ends before index p
GroupStart(s, p, dotall) ==
    LET w == SkipSpaces(s, p)
    IN  LastStart(s, p, IF w <= Len(s) THEN w ELSE Len(s), dotall)

\* (.+?) is lazy: it ends before the first index q, after its first
\* character at b, where the closing alternative matches: a newline, one of
\* the stop literals, or $.
GroupStop(s, b, stops) ==
    MinOf({q \in (b + 1)..(Len(s) + 1) :
              \/ q = Len(s) + 1
              \/ s[q] = NL
              \/ \E lit \in stops : Occurs(s, lit, q)})

\* re.search(label \s* (.+?) (?:\n|stops|$), s [, re.DOTALL]): the leftmost
\* match
SearchLabel(s, label, stops, dotall) ==
    LET hits == {i \in 1..Len(s) : /\ Occurs(s, label, i)
                                   /\ GroupStart(s, i + Len(label), dotall) # 0}
    IN  IF hits = {} THEN NoMatch
        ELSE LET b == GroupStart(s, MinOf(hits) + Len(label), dotall)
             IN  Match(SubSeq(s, b, GroupStop(s, b, stops) - 1))

\* ------------------------------------------------------------------------
\* parse_source_info
\* ------------------------------------------------------------------------

UnknownSource == <<"wei","zhi","lai","yuan">>
Placeholder == <<"F","A","Q",SP,"zi","liao">>
Dash == <<SP,"-",SP>>

\* source_map: the agency code -> the agency's name
source_map ==
    (<<"m","o","l">> :> <<"lao","dong","bu">>) @@
    (<<"o","s","h","a">> :> <<"zhi","ye","an","quan","wei","sheng","shu">>) @@
    (<<"b","l","i">> :> <<"lao","dong","bu","lao","gong","bao","xian","ju">>)

\* dict.get(key, default)
Get(map, key, default) == IF key \in DOMAIN map THEN map[key] ELSE default

\* lines 279-287: the document id, from the file name or the reverse mapping
ResolveDocId(title, gemini_id_mapping) ==
    LET m == SearchDocId(Remove(title, TXT))
    IN  IF m.found THEN m.group
        ELSE IF title \in DOMAIN gemini_id_mapping THEN gemini_id_mapping[title]
        ELSE <<>>

\* lines 314-316: an over-long question is cut
Truncate(question) ==
    IF Len(question) > QuestionMax
    THEN Take(question, QuestionMax) \o Ellipsis
    ELSE question

\* lines 323-331
DisplayName(source_name, question, category) ==
    IF question # <<>> THEN question
    ELSE IF category # <<>>
         THEN (IF source_name # <<>> THEN source_name \o Dash \o category
               ELSE category)
    ELSE IF source_name # <<>> THEN source_name
    ELSE Placeholder

\* lines 289-296: the entry of file_mapping for doc_id, empty when there is
\* none (a key the entry lacks reads as '')
NoEntry == [detail_url |-> <<>>, question |-> <<>>, source |-> <<>>]
MappingInfo(file_mapping, doc_id) ==
    IF doc_id # <<>> /\ doc_id \in DOMAIN file_mapping
    THEN file_mapping[doc_id]
    ELSE NoEntry

\* lines 300-303: the source line of the snippet replaces source_name
SourceFromText_mappingFirst(text, source_name) ==
    LET source_match == SearchLabel(text, SourceLabel, {}, FALSE)
    IN  IF source_match.found /\ source_name = <<>>
        THEN Strip(source_match.group)
        ELSE source_name
SourceFromText(text, source_name) ==
    LET source_match == SearchLabel(text, SourceLabel, {}, FALSE)
    IN  IF source_match.found THEN Strip(source_match.group) ELSE source_name

\* lines 305-308
CategoryFromText(text) ==
    LET category_match == SearchLabel(text, CategoryLabel, {}, FALSE)
    IN  IF category_match.found THEN Strip(category_match.group) ELSE <<>>

\* lines 310-316: the question of the snippet replaces question, and is cut
QuestionFromText(text, question) ==
    LET question_match == SearchLabel(text, QuestionLabel, {AnswerLabel}, TRUE)
    IN  IF question_match.found
        THEN Truncate(Strip(question_match.group))
        ELSE question

\* lines 318-321: the agency's name from the document id's code
SourceFromDocId(doc_id) ==
    LET source_code == Lower(FirstField(doc_id))
    IN  Get(source_map, source_code, Upper(source_code))

\* lines 333-339, "source": source_name or the placeholder of an unknown one
SourceOrUnknown_empty(source_name) == source_name
SourceOrUnknown(source_name) ==
    IF source_name # <<>> THEN source_name ELSE UnknownSource

parse_source_info(title, text, file_mapping, gemini_id_mapping) ==
    LET doc_id == ResolveDocId(title, gemini_id_mapping)
        mapping_info == MappingInfo(file_mapping, doc_id)
        source1 == SourceFromText(text, mapping_info.source)
        category == CategoryFromText(text)
        question == QuestionFromText(text, mapping_info.question)
        source_name == IF source1 = <<>> /\ doc_id # <<>>
                       THEN SourceFromDocId(doc_id)
                       ELSE source1
    IN  [source |-> SourceOrUnknown(source_name),
         question |-> question,
         category |-> category,
         display_name |-> DisplayName(source_name, question, category),
         detail_url |-> mapping_info.detail_url]

\* ------------------------------------------------------------------------
\* query_faq
\* ------------------------------------------------------------------------

SnippetMax == 200

\* What the service does with one generate_content call:
\*   fault  "call": the call raises; "text": reading response.text raises;
\*          "none": a response comes back
\*   msg    str(e) of the exception raised (it may be empty)
\*   text   response.text (None and '' both read as '')
\*   candidates  response.candidates; a candidate is [gm, chunks]: whether it
\*          has grounding_metadata, and its grounding_chunks
\* A chunk is [kind, title, text]:
\*   "no_rc"        the chunk has no retrieved_context attribute
\*   "rc_none"      retrieved_context is None
\*   "rc"           retrieved_context with a title and a text
\*   "rc_text_none" retrieved_context whose text is None: text[:200] raises
Chunk(kind, title, text) == [kind |-> kind, title |-> title, text |-> text]
\* str(e) of the TypeError that None[:200] raises (it is not empty)
TypeErrorMsg == <<"T","y","p","e","E","r","r","o","r">>

RawSource(title, text) == [title |-> title, uri |-> <<>>, text |-> text]

\* lines 228-232: the chunks the walk visits, in order
RECURSIVE VisitedChunks(_)
VisitedChunks(candidates) ==
    IF candidates = <<>> THEN <<>>
    ELSE (IF Head(candidates).gm THEN Head(candidates).chunks ELSE <<>>)
         \o VisitedChunks(Tail(candidates))

\* lines 233-241: the walk over the chunks; an exception ends it
RECURSIVE WalkChunks(_, _)
WalkChunks(chunks, sources) ==
    IF chunks = <<>> THEN [raised |-> FALSE, msg |-> <<>>, sources |-> sources]
    ELSE LET c == Head(chunks)
         IN  CASE c.kind = "no_rc" -> WalkChunks(Tail(chunks), sources)
               [] c.kind = "rc_none" ->
                    WalkChunks(Tail(chunks),
                               Append(sources, RawSource(<<>>, <<>>)))
               [] c.kind = "rc" ->
                    WalkChunks(Tail(chunks),
                               Append(sources,
                                      RawSource(c.title, Take(c.text, SnippetMax))))
               [] OTHER ->
                    [raised |-> TRUE, msg |-> TypeErrorMsg, sources |-> sources]

\* lines 218-243: the result dict of a call that raised nothing
OkResult(response, sources) ==
    [response |-> response, sources |-> sources,
     has_error |-> FALSE, error |-> <<>>]

\* lines 245-251: the result dict of a call that raised; partial is what the
\* walk had collected, which the handler drops
ErrorResult_keepPartial(msg, partial) ==
    [response |-> <<>>, sources |-> partial, has_error |-> TRUE, error |-> msg]
ErrorResult(msg, partial) ==
    [response |-> <<>>, sources |-> <<>>, has_error |-> TRUE, error |-> msg]

query_faq(o) ==
    IF o.fault # "none" THEN ErrorResult(o.msg, <<>>)
    ELSE LET walk == WalkChunks(VisitedChunks(o.candidates), <<>>)
         IN  IF walk.raised THEN ErrorResult(walk.msg, walk.sources)
             ELSE OkResult(o.text, walk.sources)

\* ------------------------------------------------------------------------
\* display_sources
\* ------------------------------------------------------------------------

KeyLen == 100
MaxPanels == 10

\* line 356
DedupKey_wholeText(source) ==
    IF source.text # <<>> THEN source.text ELSE source.title
DedupKey(source) ==
    IF source.text # <<>> THEN Take(source.text, KeyLen) ELSE source.title

\* lines 352-359
RECURSIVE UniqueFrom(_, _, _, _)
UniqueFrom(sources, i, seen, unique_sources) ==
    IF i > Len(sources) THEN unique_sources
    ELSE LET key == DedupKey(sources[i])
         IN  IF key # <<>> /\ key \notin seen
             THEN UniqueFrom(sources, i + 1, seen \cup {key},
                             Append(unique_sources, sources[i]))
             ELSE UniqueFrom(sources, i + 1, seen, unique_sources)
UniqueSources(sources) == UniqueFrom(sources, 1, {}, <<>>)

\* line 367: unique_sources[:10]
ShownSources(unique_sources) == Take(unique_sources, MaxPanels)

\* lines 367-379: the panels, one per shown source, numbered from 1
Panels(unique_sources, file_mapping, gemini_id_mapping) ==
    LET shown == ShownSources(unique_sources)
    IN  [i \in 1..Len(shown) |->
            [index |-> i,
             title |-> shown[i].title,
             text |-> shown[i].text,
             info |-> parse_source_info(shown[i].title, shown[i].text,
                                        file_mapping, gemini_id_mapping)]]

\* What display_sources renders: nothing (lines 344-345, 361-362), or the
\* header with the count of unique sources and the panels
display_sources(sources, file_mapping, gemini_id_mapping) ==
    LET unique_sources == UniqueSources(sources)
    IN  IF unique_sources = <<>>
        THEN [header |-> FALSE, count |-> 0, panels |-> <<>>]
        ELSE [header |-> TRUE, count |-> Len(unique_sources),
              panels |-> Panels(unique_sources, file_mapping, gemini_id_mapping)]

NothingDisplayed == [header |-> FALSE, count |-> 0, panels |-> <<>>]

\* ------------------------------------------------------------------------
\* main: what one run of the script decides after a call of query_faq
\* ------------------------------------------------------------------------

\* os.getenv("FILE_SEARCH_STORE_ID", default), line 423
StoreId == <<"s","t","o","r","e">>

\* lines 470-483: after the first call
FirstStep_retryWithSources(result) ==
    IF result.has_error /\ result.error # <<>> THEN "error"
    ELSE IF result.response = <<>> THEN "rephrase"
    ELSE "retry"
FirstStep(result) ==
    IF result.has_error /\ result.error # <<>> THEN "error"
    ELSE IF result.response = <<>> THEN "rephrase"
    ELSE IF result.sources = <<>> THEN "retry"
    ELSE "show"

\* lines 488-498: after the retry
RetryStep(result) ==
    IF result.sources = <<>> THEN "no_results" ELSE "show"

\* line 486: the retry is the same call again
RetryCall_stripped(q) == [query |-> Strip(q), store_id |-> StoreId]
RetryCall(q) == [query |-> q, store_id |-> StoreId]

\* lines 488-489: response and sources are read again from the retry's result
RenderedAfterRetry_staleResponse(first, retry) ==
    [retry EXCEPT !.response = first.response]
RenderedAfterRetry(first, retry) == retry

\* The results pane of one run:
\*   messages  the st.warning / st.error / st.info / st.markdown notices, in
\*             order: "empty_query" (464), "error" (471), "rephrase" (479),
\*             "retry_info" (484), "no_results" (492), "no_results_bullets"
\*             (493-497)
\*   error     the text of the error notice
\*   answer_section, answer   the answer heading and body (501-502)
\*   display   what display_sources rendered (505)
\*   footer    the footer (508-512), which an early return skips
Blank ==
    [messages |-> <<>>, error |-> <<>>, answer_section |-> FALSE,
     answer |-> <<>>, display |-> NothingDisplayed, footer |-> FALSE]

\* lines 500-512
ShowAnswer(scr, result, file_mapping, gemini_id_mapping) ==
    [scr EXCEPT !.answer_section = TRUE,
                !.answer = result.response,
                !.display = display_sources(result.sources, file_mapping,
                                            gemini_id_mapping),
                !.footer = TRUE]

\* ------------------------------------------------------------------------
\* State
\* ------------------------------------------------------------------------

VARIABLES
    pc,                 \* main: "idle" | "call1" | "call2" | "done"
    query,              \* the text of the query input
    callLog,            \* the calls of query_faq of this run: [query, store_id]
    inflight,           \* the calls of query_faq that have not returned
    outcomes,           \* what the service did with each call of this run
    results,            \* what query_faq returned for each call of this run
    screen,             \* the results pane
    file_mapping,       \* load_file_mapping(), cached
    gemini_id_mapping,  \* load_gemini_id_mapping(), cached
    parsePc,            \* "off" | "ready" | "parsed": a call of parse_source_info
    parseArgs,          \* the arguments of that call
    info,               \* the dict it returned
    displayPc,          \* "off" | "ready" | "displayed": a call of display_sources
    displayArgs,        \* the sources it is given
    displayed           \* what it rendered

mainVars == <<pc, query, callLog, inflight, outcomes, results, screen>>
cacheVars == <<file_mapping, gemini_id_mapping>>
parseVars == <<parsePc, parseArgs, info>>
displayVars == <<displayPc, displayArgs, displayed>>
vars == <<pc, query, callLog, inflight, outcomes, results, screen,
          file_mapping, gemini_id_mapping, parsePc, parseArgs, info,
          displayPc, displayArgs, displayed>>

\* ------------------------------------------------------------------------
\* Inputs
\* ------------------------------------------------------------------------

MaxTextPieces == 3
MaxChunks == 2
MaxRepeat == 2
ExtraFresh == 1

\* every concatenation of at most n pieces
RECURSIVE Concats(_, _)
Concats(pieces, n) ==
    IF n = 0 THEN {<<>>}
    ELSE LET shorter == Concats(pieces, n - 1)
         IN  shorter \cup {x \o y : x \in shorter, y \in pieces}

TextPieces ==
    {SourceLabel, CategoryLabel, QuestionLabel, AnswerLabel,
     <<SP>>, <<NL>>, <<"a">>, Run("x", QuestionMax)}
Texts == Concats(TextPieces, MaxTextPieces)

DateOk == <<"2","0","2","5","0","1","0","1">>
GeminiId == <<"g","1">>
DocMol == <<"m","o","l">> \o FAQ \o DateOk \o <<"_","7">>
Titles ==
    {<<>>,
     GeminiId,
     DocMol \o TXT,
     <<"X","Y","Z">> \o FAQ \o DateOk \o <<"_","7">>,
     <<"m","o","l">> \o FAQ \o Tail(DateOk) \o <<"_","7">>}

Entry(u, q, src) == [detail_url |-> u, question |-> q, source |-> src]
\* load_file_mapping(): {} when the file is absent
FileMappings ==
    {<<>>,
     DocMol :> Entry(<<"u">>, <<"q">>, <<"s">>),
     DocMol :> Entry(<<"u">>, Run("q", QuestionMax + 10), <<>>),
     DocMol :> Entry(<<"u">>, <<>>, <<>>)}
\* load_gemini_id_mapping(): {} when the file is absent
GeminiMappings == {<<>>, GeminiId :> DocMol}

NoInfo == [source |-> <<>>, question |-> <<>>, category |-> <<>>,
           display_name |-> <<>>, detail_url |-> <<>>]
NoArgs == [title |-> <<>>, text |-> <<>>, file_mapping |-> <<>>,
           gemini_id_mapping |-> <<>>]
\* a title with the lookup tables it is resolved against: a file name in the
\* file mapping, a store id in the reverse mapping, and titles neither
\* table knows
Lookup(title, fm, gm) ==
    [title |-> title, file_mapping |-> fm, gemini_id_mapping |-> gm]
Lookups ==
    {Lookup(DocMol \o TXT, fm, <<>>) : fm \in FileMappings}
    \cup {Lookup(GeminiId, fm, GeminiId :> DocMol) : fm \in FileMappings}
    \cup {Lookup(t, fm, <<>>) :
            t \in Titles \ {DocMol \o TXT},
            fm \in {<<>>, DocMol :> Entry(<<"u">>, <<"q">>, <<"s">>)}}
ParseInputs ==
    {[title |-> l.title, text |-> t, file_mapping |-> l.file_mapping,
      gemini_id_mapping |-> l.gemini_id_mapping] : l \in Lookups, t \in Texts}

\* the query input: empty, blank, or a question
Queries == {<<>>, <<SP>>, <<"q","1">>, <<SP,"q","2">>}

BoomMsg == <<"b","o","o","m">>
AnswerText == <<"A","n","s">>
OtherAnswerText == <<"A","n","s","2">>
ChunkKinds ==
    {Chunk("no_rc", <<>>, <<>>),
     Chunk("rc_none", <<>>, <<>>),
     Chunk("rc", GeminiId, <<"a">>),
     Chunk("rc", GeminiId, Run("x", SnippetMax + 1)),
     Chunk("rc", DocMol \o TXT, <<>>),
     Chunk("rc_text_none", GeminiId, <<>>)}
RECURSIVE SeqsUpTo(_, _)
SeqsUpTo(S, n) ==
    IF n = 0 THEN {<<>>}
    ELSE LET shorter == SeqsUpTo(S, n - 1)
         IN  shorter \cup {Append(x, y) : x \in shorter, y \in S}
CandidateLists ==
    {<<>>, <<[gm |-> FALSE, chunks |-> <<>>]>>}
    \cup {<<[gm |-> TRUE, chunks |-> cs]>> : cs \in SeqsUpTo(ChunkKinds, MaxChunks)}
Outcomes ==
    {[fault |-> "call", msg |-> m, text |-> <<>>, candidates |-> <<>>] :
        m \in {<<>>, BoomMsg}}
    \cup {[fault |-> "text", msg |-> BoomMsg, text |-> <<>>, candidates |-> <<>>]}
    \cup {[fault |-> "none", msg |-> <<>>, text |-> t, candidates |-> c] :
            t \in {<<>>, AnswerText, OtherAnswerText}, c \in CandidateLists}

\* the sources display_sources is given: a few sources that share keys, then
\* k sources whose keys are all different, then possibly one more
LongText(c) == Run("x", KeyLen) \o <<c>>
RepeatSources ==
    {RawSource(GeminiId, LongText("a")),
     RawSource(DocMol \o TXT, LongText("b")),
     RawSource(<<"a">>, <<>>),
     RawSource(GeminiId, <<"a">>),
     RawSource(<<>>, <<>>)}
FreshSource(i) == RawSource(GeminiId, <<"u">> \o Run("v", i))
FreshSources(k) == [i \in 1..k |-> FreshSource(i)]
DisplayInputs ==
    {a \o FreshSources(k) \o b :
        a \in SeqsUpTo(RepeatSources, MaxRepeat),
        k \in 0..(MaxPanels + ExtraFresh),
        b \in SeqsUpTo(RepeatSources \cup {FreshSource(1)}, 1)}

\* ------------------------------------------------------------------------
\* Initial states
\* ------------------------------------------------------------------------

MainIdle ==
    /\ pc = "idle"
    /\ query = <<>>
    /\ callLog = <<>>
    /\ inflight = 0
    /\ outcomes = <<>>
    /\ results = <<>>
    /\ screen = Blank
ParseOff == parsePc = "off" /\ parseArgs = NoArgs /\ info = NoInfo
DisplayOff ==
    displayPc = "off" /\ displayArgs = <<>> /\ displayed = NothingDisplayed

\* the script starts; the lookup tables are whatever the files hold
Init ==
    /\ MainIdle
    /\ file_mapping \in FileMappings
    /\ gemini_id_mapping \in GeminiMappings
    /\ ParseOff
    /\ DisplayOff

\* a call of parse_source_info is about to be made
InitParse ==
    /\ MainIdle
    /\ parsePc = "ready"
    /\ parseArgs \in ParseInputs
    /\ info = NoInfo
    /\ file_mapping = parseArgs.file_mapping
    /\ gemini_id_mapping = parseArgs.gemini_id_mapping
    /\ DisplayOff

\* a call of display_sources is about to be made
InitDisplay ==
    /\ MainIdle
    /\ file_mapping = (DocMol :> Entry(<<"u">>, <<"q">>, <<"s">>))
    /\ gemini_id_mapping = (GeminiId :> DocMol)
    /\ ParseOff
    /\ displayPc = "ready"
    /\ displayArgs \in DisplayInputs
    /\ displayed = NothingDisplayed

\* ------------------------------------------------------------------------
\* Actions
\* ------------------------------------------------------------------------

\* lines 462-468: the query is submitted; a blank one is refused, any other
\* is dispatched (the first call of query_faq, which blocks)
Submit(q) ==
    /\ pc = "idle"
    /\ query' = q
    /\ IF Strip(q) = <<>>
       THEN /\ screen' = [Blank EXCEPT !.messages = <<"empty_query">>]
            /\ pc' = "done"
            /\ UNCHANGED <<callLog, inflight>>
       ELSE /\ callLog' = Append(callLog, [query |-> q, store_id |-> StoreId])
            /\ inflight' = inflight + 1
            /\ pc' = "call1"
            /\ screen' = Blank
    /\ UNCHANGED <<outcomes, results, cacheVars, parseVars, displayVars>>

\* lines 468-505: the first call returns and main goes on to its end, or to
\* the retry (the second call of query_faq, which blocks)
FirstReturns(o) ==
    /\ pc = "call1"
    /\ LET result == query_faq(o)
           step == FirstStep(result)
       IN  /\ outcomes' = Append(outcomes, o)
           /\ results' = Append(results, result)
           /\ CASE step = "error" ->
                     /\ screen' = [screen EXCEPT !.messages = <<"error">>,
                                                 !.error = result.error]
                     /\ pc' = "done"
                     /\ inflight' = inflight - 1
                     /\ UNCHANGED callLog
                [] step = "rephrase" ->
                     /\ screen' = [screen EXCEPT !.messages = <<"rephrase">>]
                     /\ pc' = "done"
                     /\ inflight' = inflight - 1
                     /\ UNCHANGED callLog
                [] step = "retry" ->
                     /\ screen' = [screen EXCEPT !.messages = <<"retry_info">>]
                     /\ callLog' = Append(callLog, RetryCall(query))
                     /\ inflight' = inflight - 1 + 1
                     /\ pc' = "call2"
                [] OTHER ->
                     /\ screen' = ShowAnswer(screen, result, file_mapping,
                                             gemini_id_mapping)
                     /\ pc' = "done"
                     /\ inflight' = inflight - 1
                     /\ UNCHANGED callLog
    /\ UNCHANGED <<query, cacheVars, parseVars, displayVars>>

\* lines 486-505: the retry returns and main goes on to its end
RetryReturns(o) ==
    /\ pc = "call2"
    /\ LET result == query_faq(o)
           step == RetryStep(result)
       IN  /\ outcomes' = Append(outcomes, o)
           /\ results' = Append(results, result)
           /\ CASE step = "no_results" ->
                     /\ screen' = [screen EXCEPT !.messages =
                                     screen.messages \o
                                     <<"no_results", "no_results_bullets">>]
                     /\ pc' = "done"
                     /\ inflight' = inflight - 1
                     /\ UNCHANGED callLog
                [] OTHER ->
                     /\ screen' = ShowAnswer(screen,
                                             RenderedAfterRetry(results[1], result),
                                             file_mapping, gemini_id_mapping)
                     /\ pc' = "done"
                     /\ inflight' = inflight - 1
                     /\ UNCHANGED callLog
    /\ UNCHANGED <<query, cacheVars, parseVars, displayVars>>

\* the next interaction runs the script again from its top
Rerun ==
    /\ pc = "done"
    /\ pc' = "idle"
    /\ query' = <<>>
    /\ callLog' = <<>>
    /\ inflight' = 0
    /\ outcomes' = <<>>
    /\ results' = <<>>
    /\ screen' = Blank
    /\ UNCHANGED <<cacheVars, parseVars, displayVars>>

\* display_sources line 370: one call of parse_source_info
ParseCall ==
    /\ parsePc = "ready"
    /\ info' = parse_source_info(parseArgs.title, parseArgs.text,
                                 parseArgs.file_mapping,
                                 parseArgs.gemini_id_mapping)
    /\ parsePc' = "parsed"
    /\ UNCHANGED <<parseArgs, mainVars, cacheVars, displayVars>>

\* main line 505: one call of display_sources
DisplayCall ==
    /\ displayPc = "ready"
    /\ displayed' = display_sources(displayArgs, file_mapping, gemini_id_mapping)
    /\ displayPc' = "displayed"
    /\ UNCHANGED <<displayArgs, mainVars, cacheVars, parseVars>>

\* ------------------------------------------------------------------------
\* Specifications
\* ------------------------------------------------------------------------

Next ==
    \/ \E q \in Queries : Submit(q)
    \/ \E o \in Outcomes : FirstReturns(o)
    \/ \E o \in Outcomes : RetryReturns(o)
    \/ Rerun
Spec == Init /\ [][Next]_vars

NextParse == ParseCall
SpecParse == InitParse /\ [][NextParse]_vars

NextDisplay == DisplayCall
SpecDisplay == InitDisplay /\ [][NextDisplay]_vars

\* ------------------------------------------------------------------------
\* Properties of main and query_faq (under Spec)
\* ------------------------------------------------------------------------

Messages == Range(screen.messages)
Done == pc = "done"

\* an exception is raised inside query_faq's try block for outcome o: by the
\* call, by reading the text, or by a chunk whose text is None
ExceptionIn(o) ==
    \/ o.fault # "none"
    \/ \E c \in Range(o.candidates) :
          c.gm /\ \E k \in Range(c.chunks) : k.kind = "rc_text_none"

\* C1: at most two calls of query_faq per query; a call is issued only when
\* every earlier one has returned; the second call is issued only after the
\* first has returned a result with an empty sources list.
C1_AtMostTwoSequentialCalls ==
    /\ Len(callLog) <= 2
    /\ inflight <= 1
    /\ inflight = Len(callLog) - Len(results)
    /\ Len(callLog) = 2 => Len(results) >= 1 /\ results[1].sources = <<>>

C1_Witness ==
    /\ Done
    /\ Len(callLog) = 2
    /\ Len(results) = 2
    /\ results[1].sources = <<>>

\* C2 as stated: whenever the first call returns zero sources and no error,
\* exactly one more call with the same query and store is issued.
C2_Original ==
    (Len(results) >= 1 /\ results[1].sources = <<>> /\ ~results[1].has_error)
        => (Len(callLog) = 2 /\ callLog[2] = callLog[1])

\* C2 amended: whenever the first call returns a non-empty answer with zero
\* sources, exactly one more call with the same query and store is issued,
\* the no-results guidance is shown only after that call has returned, and no
\* call follows it; a first result with an empty answer is not retried.
C2_RetryOnce ==
    /\ (Len(results) >= 1 /\ results[1].response # <<>>
                          /\ results[1].sources = <<>>)
          => (Len(callLog) = 2 /\ callLog[2] = callLog[1])
    /\ (Len(results) >= 1 /\ results[1].response = <<>>) => Len(callLog) = 1
    /\ "no_results" \in Messages => (Len(callLog) = 2 /\ Len(results) = 2)
    /\ Len(callLog) <= 2

C2_Witness ==
    /\ Done
    /\ Len(callLog) = 2
    /\ callLog[2] = callLog[1]
    /\ callLog[1].query # Strip(callLog[1].query)
    /\ "no_results" \in Messages

C4_FailSoft ==
    \A i \in 1..Len(results) :
        IF ExceptionIn(outcomes[i])
        THEN /\ results[i].has_error
             /\ results[i].error = (IF outcomes[i].fault # "none"
                                    THEN outcomes[i].msg ELSE TypeErrorMsg)
             /\ results[i].response = <<>>
             /\ results[i].sources = <<>>
        ELSE ~results[i].has_error

\* an exception while walking the chunks, after a source was collected
C4_Witness ==
    \E i \in 1..Len(results) :
        /\ outcomes[i].fault = "none"
        /\ ExceptionIn(outcomes[i])
        /\ \E c \in Range(outcomes[i].candidates) :
              c.chunks # <<>> /\ c.chunks[1].kind = "rc"
        /\ results[i].has_error

\* C5: every call of a query that ended in an exception is shown to the user
\* as an error.
C5_ErrorShown ==
    Done => \A i \in 1..Len(outcomes) :
                ExceptionIn(outcomes[i]) => "error" \in Messages

\* C6: when the result used for the output has an empty answer and no error,
\* the rephrase warning is shown, no error is, and no answer section with an
\* empty text is rendered.
C6_RephraseOnEmptyAnswer ==
    (Done /\ Len(results) >= 1)
    => LET r == results[Len(results)]
       IN  (r.response = <<>> /\ ~r.has_error)
           => /\ "rephrase" \in Messages
              /\ "error" \notin Messages
              /\ ~(screen.answer_section /\ screen.answer = <<>>)

\* ------------------------------------------------------------------------
\* Properties of parse_source_info (under SpecParse)
\* ------------------------------------------------------------------------

Parsed == parsePc = "parsed"

\* what the call was given, read apart from parse_source_info
ArgDocId == ResolveDocId(parseArgs.title, parseArgs.gemini_id_mapping)
ArgEntry == MappingInfo(parseArgs.file_mapping, ArgDocId)
Contains(text, label) == \E i \in 1..Len(text) : Occurs(text, label, i)
SnippetSource == SearchLabel(parseArgs.text, SourceLabel, {}, FALSE)
SnippetCategory == SearchLabel(parseArgs.text, CategoryLabel, {}, FALSE)
SnippetQuestion == SearchLabel(parseArgs.text, QuestionLabel, {AnswerLabel}, TRUE)
CodeName == IF ArgDocId = <<>> THEN <<>> ELSE SourceFromDocId(ArgDocId)

\* C7 as stated: for source and for question, if the snippet contains the
\* label and the mapping supplies a value, the snippet's value is returned;
\* the detail URL is the mapping's.
C7_Original ==
    Parsed =>
    /\ (Contains(parseArgs.text, SourceLabel) /\ ArgEntry.source # <<>>)
          => (SnippetSource.found /\ info.source = Strip(SnippetSource.group))
    /\ (Contains(parseArgs.text, QuestionLabel) /\ ArgEntry.question # <<>>)
          => (SnippetQuestion.found
              /\ info.question = Truncate(Strip(SnippetQuestion.group)))
    /\ info.detail_url = ArgEntry.detail_url

\* C7 amended: for source and for question, if the label's pattern matches
\* in the snippet (the label is followed by a character its value can start
\* with), the mapping's value is not used: the question is the snippet's
\* (stripped, cut), the source is the snippet's (stripped) or, when that is
\* blank, the name from the document id's code, else the placeholder of an
\* unknown source.  If the pattern does not match, which includes a label
\* with nothing after it, the mapping's value is returned when it supplies
\* one.  The detail URL is the mapping's whatever the snippet holds.
C7_SnippetFirst ==
    Parsed =>
    /\ (SnippetSource.found /\ Strip(SnippetSource.group) # <<>>)
          => info.source = Strip(SnippetSource.group)
    /\ (SnippetSource.found /\ Strip(SnippetSource.group) = <<>>)
          => info.source = (IF CodeName # <<>> THEN CodeName ELSE UnknownSource)
    /\ (~SnippetSource.found /\ ArgEntry.source # <<>>)
          => info.source = ArgEntry.source
    /\ SnippetQuestion.found
          => info.question = Truncate(Strip(SnippetQuestion.group))
    /\ ~SnippetQuestion.found => info.question = ArgEntry.question
    /\ info.detail_url = ArgEntry.detail_url

\* the snippet and the mapping both supply a source, and a detail URL exists
C7_Witness ==
    /\ Parsed
    /\ SnippetSource.found
    /\ Strip(SnippetSource.group) # <<>>
    /\ ArgEntry.source # <<>>
    /\ ArgEntry.source # Strip(SnippetSource.group)
    /\ info.source = Strip(SnippetSource.group)
    /\ info.detail_url # <<>>

\* C8: whichever path produced the question, one longer than 50 characters
\* is returned as its first 50 characters and an ellipsis, a shorter one
\* unmodified.
C8_QuestionCut ==
    Parsed =>
    LET raw == IF SnippetQuestion.found THEN Strip(SnippetQuestion.group)
               ELSE ArgEntry.question
    IN  /\ info.question = (IF Len(raw) > QuestionMax
                            THEN Take(raw, QuestionMax) \o Ellipsis
                            ELSE raw)
        /\ Len(info.question) <= QuestionMax + Len(Ellipsis)

\* which fields no path resolves
SourceUnresolved ==
    /\ ~(SnippetSource.found /\ Strip(SnippetSource.group) # <<>>)
    /\ ArgEntry.source = <<>>
    /\ CodeName = <<>>
QuestionUnresolved ==
    /\ ~(SnippetQuestion.found /\ Strip(SnippetQuestion.group) # <<>>)
    /\ ArgEntry.question = <<>>
CategoryUnresolved ==
    ~(SnippetCategory.found /\ Strip(SnippetCategory.group) # <<>>)
UrlUnresolved == ArgEntry.detail_url = <<>>

\* C10 as stated: every field that could not be resolved, the source agency
\* among them, is the empty string.
C10_Original ==
    Parsed =>
    /\ SourceUnresolved => info.source = <<>>
    /\ QuestionUnresolved => info.question = <<>>
    /\ CategoryUnresolved => info.category = <<>>
    /\ UrlUnresolved => info.detail_url = <<>>

\* C10 amended: a question, category or detail URL that could not be
\* resolved is the empty string, a source agency that could not be resolved
\* is the fixed placeholder of an unknown source, and the display name is the
\* fixed placeholder when no question, source or category was resolved (it
\* is never empty).
C10_Degrades ==
    Parsed =>
    /\ SourceUnresolved => info.source = UnknownSource
    /\ QuestionUnresolved => info.question = <<>>
    /\ CategoryUnresolved => info.category = <<>>
    /\ UrlUnresolved => info.detail_url = <<>>
    /\ (SourceUnresolved /\ QuestionUnresolved /\ CategoryUnresolved)
          => info.display_name = Placeholder
    /\ info.display_name # <<>>
    /\ info.source # <<>>

\* both lookup tables absent, nothing in the title or the snippet
C10_Witness ==
    /\ Parsed
    /\ parseArgs.file_mapping = <<>>
    /\ parseArgs.gemini_id_mapping = <<>>
    /\ SourceUnresolved /\ QuestionUnresolved /\ CategoryUnresolved
    /\ UrlUnresolved
    /\ info.display_name = Placeholder
    /\ info.source = UnknownSource

\* ------------------------------------------------------------------------
\* Properties of display_sources (under SpecDisplay)
\* ------------------------------------------------------------------------

Displayed == displayPc = "displayed"

\* the key the sources are told apart by: the first 100 characters of the
\* snippet if it is not empty, else the title
C9Key(x) == IF Len(x.text) > 0 THEN SubSeq(x.text, 1, IF Len(x.text) < KeyLen THEN Len(x.text) ELSE KeyLen)
            ELSE x.title
FirstIndex(key) ==
    MinOf({n \in 1..Len(displayArgs) : C9Key(displayArgs[n]) = key})
NonEmptyKeys == {C9Key(displayArgs[n]) : n \in 1..Len(displayArgs)} \ {<<>>}

\* C9: no two panels have the same key, each panel is the first source of
\* the input with its key, the panels are in the order their keys first
\* appear, they are numbered from 1, and there are as many as there are keys,
\* but at most 10.
C9_Dedup ==
    Displayed =>
    LET ps == displayed.panels
    IN  /\ Len(ps) <= MaxPanels
        /\ Len(ps) = (IF Cardinality(NonEmptyKeys) < MaxPanels
                      THEN Cardinality(NonEmptyKeys) ELSE MaxPanels)
        /\ \A i, j \in 1..Len(ps) : i < j => C9Key(ps[i]) # C9Key(ps[j])
        /\ \A i \in 1..Len(ps) :
              /\ ps[i].index = i
              /\ C9Key(ps[i]) \in NonEmptyKeys
              /\ ps[i].title = displayArgs[FirstIndex(C9Key(ps[i]))].title
              /\ ps[i].text = displayArgs[FirstIndex(C9Key(ps[i]))].text
        /\ \A i, j \in 1..Len(ps) :
              i < j => FirstIndex(C9Key(ps[i])) < FirstIndex(C9Key(ps[j]))
        /\ \A i \in 1..Len(ps) : \A key \in NonEmptyKeys :
              FirstIndex(key) < FirstIndex(C9Key(ps[i]))
                 => \E j \in 1..Len(ps) : j < i /\ C9Key(ps[j]) = key

\* more than 10 keys, and sources that share a 100-character prefix
C9_Witness ==
    /\ Displayed
    /\ Len(displayed.panels) = MaxPanels
    /\ Cardinality(NonEmptyKeys) > MaxPanels
    /\ \E m, n \in 1..Len(displayArgs) :
          /\ m < n
          /\ displayArgs[m].text # displayArgs[n].text
          /\ Len(displayArgs[m].text) > KeyLen
          /\ C9Key(displayArgs[m]) = C9Key(displayArgs[n])

====
